---- MODULE Spec2Model ----
(***************************************************************************)
(* A model of src/index.js: the GitHub action that links a pull request to *)
(* a Jira issue.  main() is a sequential async function; every awaited     *)
(* collaborator call is one step of the model and may reject.  Strings are *)
(* sequences of one-character strings, so that the key pattern and the     *)
(* template literals are computed and not assumed.                         *)
(***************************************************************************)
EXTENDS Integers, Sequences, FiniteSets, TLC

\* ------------------------------------------------------------ JS values

\* undefined / null, and a present value
None == << >>
Some(x) == << x >>
IsSome(o) == o # None
Val(o) == o[1]

\* JS truthiness of a string: the empty string is falsy
Truthy(s) == s # << >>
\* JS truthiness of a value that is undefined or a string
TruthyOpt(o) == IsSome(o) /\ Truthy(Val(o))

StrUndefined == <<"u", "n", "d", "e", "f", "i", "n", "e", "d">>
StrNull == <<"n", "u", "l", "l">>

\* `${x}` in a template literal: the string itself, or the missing value's name
Render(o, missing) == IF IsSome(o) THEN Val(o) ELSE missing

\* ------------------------------------------------------------ the key pattern

Upper == {"A", "B", "C", "D", "E", "F", "G", "H", "I", "J", "K", "L", "M",
          "N", "O", "P", "Q", "R", "S", "T", "U", "V", "W", "X", "Y", "Z"}
Lower == {"a", "b", "c", "d", "e", "f", "g", "h", "i", "j", "k", "l", "m",
          "n", "o", "p", "q", "r", "s", "t", "u", "v", "w", "x", "y", "z"}
Digit == {"0", "1", "2", "3", "4", "5", "6", "7", "8", "9"}
Letter == Upper \cup Lower
LineTerminator == {"\n", "\r"}

\* the end of the maximal run of characters of class `cls` that starts at i
\* (i - 1 when s[i] is not in the class)
RECURSIVE RunEnd(_, _, _)
RunEnd(s, i, cls) ==
    IF i <= Len(s) /\ s[i] \in cls THEN RunEnd(s, i + 1, cls) ELSE i - 1

\* /[^A-Za-z].([A-Za-z]+-\d+)/ matched with its first character at i:
\* one non-letter, one character of any kind, letters, a dash, digits.  The
\* letters are followed by a dash, which is no letter, so the greedy run of
\* letters is the only one that can match.
LettersEnd(s, i) == RunEnd(s, i + 2, Letter)
DigitsEnd(s, i) == RunEnd(s, LettersEnd(s, i) + 2, Digit)
\* MatchesAt with a pattern that takes capital letters only
MatchesAtUpper(s, i) ==
    /\ i + 4 <= Len(s)
    /\ s[i] \notin Letter
    /\ s[i + 1] \notin LineTerminator
    /\ RunEnd(s, i + 2, Upper) >= i + 2
    /\ RunEnd(s, i + 2, Upper) + 1 <= Len(s)
    /\ s[RunEnd(s, i + 2, Upper) + 1] = "-"
    /\ DigitsEnd(s, i) >= LettersEnd(s, i) + 2

MatchesAt(s, i) ==
    /\ i + 4 <= Len(s)
    /\ s[i] \notin Letter
    /\ s[i + 1] \notin LineTerminator
    /\ LettersEnd(s, i) >= i + 2
    /\ LettersEnd(s, i) + 1 <= Len(s)
    /\ s[LettersEnd(s, i) + 1] = "-"
    /\ DigitsEnd(s, i) >= LettersEnd(s, i) + 2

\* the capture group of the match that starts at i
GroupAt(s, i) == SubSeq(s, i + 2, DigitsEnd(s, i))

Min(S) == CHOOSE x \in S : \A y \in S : x <= y

\* s.match(jiraTicketFormat), shift(), [key] = ...: the capture group of the
\* leftmost match, or nothing
jiraTicketFormat(s) ==
    LET starts == {i \in 1..Len(s) : MatchesAt(s, i)}
    IN  IF starts = {} THEN None ELSE Some(GroupAt(s, Min(starts)))

\* ------------------------------------------------------------ inputs

\* the largest issue number the tracker hands out to a new issue
MaxIssueNum == 2

\* the values an optional string input takes: not set, or set
Unset == << >>
OptionalInput(v) == {Unset, v}

host == <<"h">>
version == <<"1">>
WebhookUrl == <<"w">>
Email == <<"e">>
Token == <<"t">>
Project == <<"A", "B">>
IssueType == <<"T">>
Board == <<"7">>
TransitionName == <<"G">>
OtherTransitionName == <<"O">>
HtmlUrl == <<"p">>

\* "Fix AB-4" and "Fix"
TitleWithKey == <<"F", "i", "x", " ", "A", "B", "-", "4">>
TitlePlain == <<"F", "i", "x">>
\* "f/ab-9" and "main"
BranchWithKey == <<"f", "/", "a", "b", "-", "9">>
BranchPlain == <<"m", "a", "i", "n">>
\* "a #b"
BodyText == <<"a", " ", "#", "b">>

\* (title of the re-fetched pull request, title of the event payload, branch):
\* the key is in the payload title that stands in for an empty re-fetched
\* title; in the re-fetched title and in the branch; in the branch alone;
\* nowhere
Heads == {<< << >>, TitleWithKey, BranchPlain>>,
          <<TitleWithKey, TitlePlain, BranchWithKey>>,
          <<TitlePlain, TitleWithKey, BranchWithKey>>,
          <<TitlePlain, TitleWithKey, BranchPlain>>}
\* (pull_request.body, appendDescAfterRegex): the body is null for a pull
\* request without a description; the pattern is not set, or a literal
Texts == {<<None, Unset>>, <<Some(BodyText), Unset>>, <<Some(BodyText), <<"#">> >>}

Summaries == {None, Some(<<"S">>)}

DigitChar(n) == <<"0", "1", "2", "3", "4", "5", "6", "7", "8", "9">>[n + 1]

\* ------------------------------------------------------------ state

VARIABLES
    \* the action's inputs (core.getInput)
    webhook, email, token, project, type, board,
    isOnlyTransition, isCreateIssue, otherAssignedTransition,
    isAssignToReporter, isOnlyAppendDesc, appendDescAfterRegex,
    isAddFixVersionOnMerge,
    \* core.getInput('transition'), and `let transition`, which starts as the
    \* input and is overwritten in the shared tail
    configuredTransition, transition,
    \* github.context.payload.pull_request: title, body, ref (head.ref), merged
    pr,
    \* the title the repository host holds for the pull request
    remoteTitle,
    \* main()'s locals
    latestPrTitle, foundInTitle, key, issueTitle, userId, isMeCreatedIssue,
    \* where main() stands, and how it ended
    pc, error,
    \* the collaborator calls issued so far, in order
    calls

inputs == <<webhook, email, token, project, type, board, isOnlyTransition,
            isCreateIssue, otherAssignedTransition, isAssignToReporter,
            isOnlyAppendDesc, appendDescAfterRegex, isAddFixVersionOnMerge,
            configuredTransition, pr, remoteTitle>>
locals == <<latestPrTitle, foundInTitle, key, issueTitle, userId,
            isMeCreatedIssue>>
vars == <<inputs, transition, locals, pc, error, calls>>

\* a collaborator call: the operation, the issue key it names (for postIssue
\* the key it returns), the title and body of a pull request update (for
\* postIssue the summary), one further argument, and whether the awaited
\* promise resolved or rejected
Call(op, k, t, b, a) ==
    [op |-> op, key |-> k, title |-> t, body |-> b, arg |-> a, result |-> "pending"]

\* the key of the issue the tracker creates: PROJECT-n
IssueKey(n) == project \o <<"-", DigitChar(n)>>

Init ==
    /\ webhook \in OptionalInput(WebhookUrl)
    /\ email \in OptionalInput(Email)
    /\ token \in OptionalInput(Token)
    /\ project \in OptionalInput(Project)
    /\ type \in OptionalInput(IssueType)
    /\ board \in OptionalInput(Board)
    /\ configuredTransition \in OptionalInput(TransitionName)
    /\ transition = configuredTransition
    /\ otherAssignedTransition \in OptionalInput(OtherTransitionName)
    /\ isOnlyTransition \in BOOLEAN
    /\ isCreateIssue \in BOOLEAN
    /\ isAssignToReporter \in BOOLEAN
    /\ isOnlyAppendDesc \in BOOLEAN
    /\ isAddFixVersionOnMerge \in BOOLEAN
    /\ \E hd \in Heads, tx \in Texts, mg \in BOOLEAN :
          /\ remoteTitle = hd[1]
          /\ pr = [title |-> hd[2], body |-> tx[1], ref |-> hd[3], merged |-> mg]
          /\ appendDescAfterRegex = tx[2]
    /\ latestPrTitle = << >>
    /\ foundInTitle = None
    /\ key = None
    /\ issueTitle = None
    /\ userId = None
    /\ isMeCreatedIssue = None
    /\ pc = "start"
    /\ error = "none"
    /\ calls = << >>

\* ------------------------------------------------------------ control flow

\* process.exit(0), main() resolved, main() rejected (core.setFailed)
Exit0 == "exit0"
Returned == "returned"
Failed == "failed"
Ended == pc \in {Exit0, Returned, Failed}

\* AfterTransit with the assignment tested before isOnlyTransition
AfterTransitAssignFirst ==
    IF isAssignToReporter THEN "getIssueReporterId"
    ELSE IF isOnlyTransition THEN Exit0
    ELSE "postComment"

\* lines 186-193: after the transition step
AfterTransit ==
    IF isOnlyTransition THEN Exit0
    ELSE IF isAssignToReporter THEN "getIssueReporterId"
    ELSE "postComment"

\* lines 182-184: `if (transition)` with the effective transition tr
AfterChoice(tr) == IF Truthy(tr) THEN "postTransitIssue" ELSE AfterTransit

\* lines 171-181: the shared tail, entered with key k
TailEntry(k) ==
    IF ~IsSome(k) THEN Exit0
    ELSE IF Truthy(otherAssignedTransition) THEN "isMeCreatedIssue"
    ELSE AfterChoice(transition)

\* ModeSelect with the create-issue branch tested before the append branch
ModeSelectCreateFirst(fit, k) ==
    IF Truthy(webhook)
    THEN IF ~IsSome(k) THEN [pc |-> Exit0, error |-> "none"]
         ELSE [pc |-> "webhook", error |-> "none"]
    ELSE IF isCreateIssue
    THEN IF ~Truthy(project) THEN [pc |-> Failed, error |-> "need project"]
         ELSE IF ~Truthy(type) THEN [pc |-> Failed, error |-> "need type"]
         ELSE IF IsSome(fit) \/ IsSome(k) THEN [pc |-> Exit0, error |-> "none"]
         ELSE [pc |-> "getUser", error |-> "none"]
    ELSE IF isOnlyAppendDesc THEN [pc |-> "appendDesc", error |-> "none"]
    ELSE [pc |-> TailEntry(k), error |-> "none"]

\* ModeSelect without the exit of lines 148-150 for a key that is already there
ModeSelectNoSkip(fit, k) ==
    IF Truthy(webhook)
    THEN IF ~IsSome(k) THEN [pc |-> Exit0, error |-> "none"]
         ELSE [pc |-> "webhook", error |-> "none"]
    ELSE IF isOnlyAppendDesc THEN [pc |-> "appendDesc", error |-> "none"]
    ELSE IF isCreateIssue
    THEN IF ~Truthy(project) THEN [pc |-> Failed, error |-> "need project"]
         ELSE IF ~Truthy(type) THEN [pc |-> Failed, error |-> "need type"]
         ELSE IF IsSome(k) THEN [pc |-> TailEntry(k), error |-> "none"]
         ELSE [pc |-> "getUser", error |-> "none"]
    ELSE [pc |-> TailEntry(k), error |-> "none"]

\* lines 77-174: the branch main() takes once key and issueTitle are known,
\* up to its next collaborator call
ModeSelect(fit, k) ==
    IF Truthy(webhook)
    THEN IF ~IsSome(k) THEN [pc |-> Exit0, error |-> "none"]
         ELSE [pc |-> "webhook", error |-> "none"]
    ELSE IF isOnlyAppendDesc THEN [pc |-> "appendDesc", error |-> "none"]
    ELSE IF isCreateIssue
    THEN IF ~Truthy(project) THEN [pc |-> Failed, error |-> "need project"]
         ELSE IF ~Truthy(type) THEN [pc |-> Failed, error |-> "need type"]
         ELSE IF IsSome(fit) \/ IsSome(k) THEN [pc |-> Exit0, error |-> "none"]
         ELSE [pc |-> "getUser", error |-> "none"]
    ELSE [pc |-> TailEntry(k), error |-> "none"]

\* ------------------------------------------------------------ texts

BrowsePath == <<"/", "b", "r", "o", "w", "s", "e", "/">>

\* `[${key}${summary}](${host}/browse/${key})`
LinkText(k, summary) ==
    <<"[">> \o Render(k, StrUndefined) \o summary \o <<"]", "(">> \o host
        \o BrowsePath \o Render(k, StrUndefined) \o <<")">>

\* lines 97 and 103: `${issueTitle ? `: ${issueTitle}` : ''}`
SummaryIfTruthy == IF TruthyOpt(issueTitle) THEN <<":", " ">> \o Val(issueTitle) ELSE << >>
\* lines 138 and 210: `${foundInTitle ? `: ${issueTitle}` : ''}`
SummaryIfFoundInTitle ==
    IF IsSome(foundInTitle) THEN <<":", " ">> \o Render(issueTitle, StrUndefined)
    ELSE << >>

\* TitleWithSuffix without the brackets around the key
TitleWithSuffixBare == latestPrTitle \o <<" ">> \o Render(key, StrUndefined)

\* lines 102 and 212: `${latestPrTitle} [${key}]`
TitleWithSuffix == latestPrTitle \o <<" ", "[">> \o Render(key, StrUndefined) \o <<"]">>

\* String.prototype.search with a literal pattern: the 0-based index of the
\* first occurrence of p in s, or -1
Search(s, p) ==
    LET hits == {i \in 0..(Len(s) - Len(p)) : SubSeq(s, i + 1, i + Len(p)) = p}
    IN  IF hits = {} THEN -1 ELSE Min(hits)

\* String.prototype.slice(a, b) and slice(a) for 0 <= a <= b
Slice(s, a, b) == SubSeq(s, a + 1, IF b < Len(s) THEN b ELSE Len(s))
SliceFrom(s, a) == SubSeq(s, a + 1, Len(s))

\* lines 126-136: `from`, and `from + length`, for the body text b
AppendFrom(b) ==
    IF Truthy(appendDescAfterRegex) /\ Search(b, appendDescAfterRegex) # -1
    THEN Search(b, appendDescAfterRegex)
    ELSE 0
AppendEnd(b) ==
    IF Truthy(appendDescAfterRegex) /\ Search(b, appendDescAfterRegex) # -1
    THEN Search(b, appendDescAfterRegex) + Len(appendDescAfterRegex)
    ELSE 0

\* line 138: the body written in append-description-only mode
AppendDescBody(b) ==
    Slice(b, 0, AppendEnd(b))
        \o (IF AppendFrom(b) = 0 THEN << >> ELSE <<" ">>)
        \o LinkText(key, SummaryIfFoundInTitle)
        \o (IF AppendFrom(b) = 0 THEN <<"\n">> ELSE << >>)
        \o SliceFrom(b, AppendEnd(b))

\* lines 97 and 103: the body written in webhook mode
WebhookBody == LinkText(key, SummaryIfTruthy) \o <<"\n">> \o Render(pr.body, StrNull)
\* line 210: the body written by the shared tail
TailBody == LinkText(key, SummaryIfFoundInTitle) \o <<"\n">> \o Render(pr.body, StrNull)

\* ------------------------------------------------------------ main()

Goto(next) == pc' = next.pc /\ error' = next.error
GotoPc(label) == pc' = label /\ error' = "none"

\* the awaited call c resolves
Resolves(c) == calls' = Append(calls, [c EXCEPT !.result = "resolved"])
\* the awaited call c rejects: main() rejects and core.setFailed runs (line 219)
Rejects(c) ==
    /\ calls' = Append(calls, [c EXCEPT !.result = "rejected"])
    /\ pc' = Failed
    /\ error' = "collaborator"

\* FetchLatestPr with the summary read gated by the email alone
FetchLatestPrEmailOnly ==
    /\ pc = "start"
    /\ LET c == Call("getPullRequest", None, None, None, None)
           t == IF Truthy(remoteTitle) THEN remoteTitle ELSE pr.title
           fit == jiraTicketFormat(t)
           k == IF IsSome(fit) THEN fit ELSE jiraTicketFormat(pr.ref)
       IN  \/ Rejects(c) /\ UNCHANGED locals
           \/ /\ Resolves(c)
              /\ latestPrTitle' = t
              /\ foundInTitle' = fit
              /\ key' = k
              /\ IF Truthy(email) /\ IsSome(k)
                 THEN GotoPc("getIssueSummary")
                 ELSE Goto(ModeSelect(fit, k))
              /\ UNCHANGED <<issueTitle, userId, isMeCreatedIssue>>
    /\ UNCHANGED <<inputs, transition>>

\* lines 50-75: fetch the pull request, resolve the key from the title, then
\* from the branch
FetchLatestPr ==
    /\ pc = "start"
    /\ LET c == Call("getPullRequest", None, None, None, None)
           t == IF Truthy(remoteTitle) THEN remoteTitle ELSE pr.title
           fit == jiraTicketFormat(t)
           k == IF IsSome(fit) THEN fit ELSE jiraTicketFormat(pr.ref)
       IN  \/ Rejects(c) /\ UNCHANGED locals
           \/ /\ Resolves(c)
              /\ latestPrTitle' = t
              /\ foundInTitle' = fit
              /\ key' = k
              /\ IF Truthy(email) /\ Truthy(token) /\ IsSome(k)
                 THEN GotoPc("getIssueSummary")
                 ELSE Goto(ModeSelect(fit, k))
              /\ UNCHANGED <<issueTitle, userId, isMeCreatedIssue>>
    /\ UNCHANGED <<inputs, transition>>

\* line 74
GetIssueSummary ==
    /\ pc = "getIssueSummary"
    /\ LET c == Call("getIssueSummary", key, None, None, None)
       IN  \/ Rejects(c) /\ UNCHANGED locals
           \/ /\ Resolves(c)
              /\ \E summary \in Summaries : issueTitle' = summary
              /\ Goto(ModeSelect(foundInTitle, key))
              /\ UNCHANGED <<latestPrTitle, foundInTitle, key, userId, isMeCreatedIssue>>
    /\ UNCHANGED <<inputs, transition>>

\* PostWebhook without the exit on a merged pull request
PostWebhookMergedFallsThrough ==
    /\ pc = "webhook"
    /\ LET c == Call("webhook", key, None, None, None)
       IN  \/ Rejects(c)
           \/ /\ Resolves(c)
              /\ GotoPc(IF pr.merged /\ isAddFixVersionOnMerge
                        THEN "getVersionIdByPrefix"
                        ELSE "webhookUpdatePR")
    /\ UNCHANGED <<inputs, transition, locals>>

\* lines 83-93
PostWebhook ==
    /\ pc = "webhook"
    /\ LET c == Call("webhook", key, None, None, None)
       IN  \/ Rejects(c)
           \/ /\ Resolves(c)
              /\ GotoPc(IF pr.merged
                        THEN IF isAddFixVersionOnMerge
                             THEN "getVersionIdByPrefix" ELSE Exit0
                        ELSE "webhookUpdatePR")
    /\ UNCHANGED <<inputs, transition, locals>>

\* line 89
GetVersionIdByPrefix ==
    /\ pc = "getVersionIdByPrefix"
    /\ LET c == Call("getVersionIdByPrefix", None, None, None, version)
       IN  Rejects(c) \/ (Resolves(c) /\ GotoPc("putFixVersion"))
    /\ UNCHANGED <<inputs, transition, locals>>

\* lines 90-92
PutFixVersion ==
    /\ pc = "putFixVersion"
    /\ LET c == Call("putFixVersion", key, None, None, version)
       IN  Rejects(c) \/ (Resolves(c) /\ GotoPc(Exit0))
    /\ UNCHANGED <<inputs, transition, locals>>

\* WebhookUpdatePR that always rewrites the title
WebhookUpdatePRAlwaysTitle ==
    /\ pc = "webhookUpdatePR"
    /\ LET c == Call("updatePR", None, Some(TitleWithSuffix), Some(WebhookBody), None)
       IN  \/ Rejects(c)
           \/ /\ Resolves(c)
              /\ GotoPc(IF Truthy(email) /\ Truthy(token)
                        THEN "webhookPostComment" ELSE Exit0)
    /\ UNCHANGED <<inputs, transition, locals>>

\* lines 95-107
WebhookUpdatePR ==
    /\ pc = "webhookUpdatePR"
    /\ LET c == Call("updatePR", None,
                     IF IsSome(foundInTitle) THEN None ELSE Some(TitleWithSuffix),
                     Some(WebhookBody), None)
       IN  \/ Rejects(c)
           \/ /\ Resolves(c)
              /\ GotoPc(IF Truthy(email) /\ Truthy(token)
                        THEN "webhookPostComment" ELSE Exit0)
    /\ UNCHANGED <<inputs, transition, locals>>

\* lines 108-122
WebhookPostComment ==
    /\ pc = "webhookPostComment"
    /\ LET c == Call("postComment", key, None, None, HtmlUrl)
       IN  Rejects(c) \/ (Resolves(c) /\ GotoPc(Exit0))
    /\ UNCHANGED <<inputs, transition, locals>>

\* lines 125-143: pr.body.search and pr.body.slice throw a TypeError when the
\* body is null
AppendDesc ==
    /\ pc = "appendDesc"
    /\ IF ~IsSome(pr.body)
       THEN pc' = Failed /\ error' = "TypeError" /\ UNCHANGED calls
       ELSE LET c == Call("updatePR", None, None,
                          Some(AppendDescBody(Val(pr.body))), None)
            IN  Rejects(c) \/ (Resolves(c) /\ GotoPc(Exit0))
    /\ UNCHANGED <<inputs, transition, locals>>

\* lines 155-157: the actor's profile, read from the repository host
GetUser ==
    /\ pc = "getUser"
    /\ LET c == Call("getUser", None, None, None, None)
       IN  Rejects(c) \/ (Resolves(c) /\ GotoPc("getUserIdByFuzzyName"))
    /\ UNCHANGED <<inputs, transition, locals>>

\* line 158: a rejection is caught by .catch(core.info), which yields undefined
GetUserIdByFuzzyName ==
    /\ pc = "getUserIdByFuzzyName"
    /\ LET c == Call("getUserIdByFuzzyName", None, None, None, None)
       IN  \/ /\ calls' = Append(calls, [c EXCEPT !.result = "rejected"])
              /\ userId' = None
           \/ /\ Resolves(c)
              /\ userId' = Some(<<"u">>)
    /\ GotoPc("postIssue")
    /\ UNCHANGED <<inputs, transition, latestPrTitle, foundInTitle, key,
                   issueTitle, isMeCreatedIssue>>

\* PostIssue without `key = issue.key`
PostIssueKeyNotAdopted ==
    /\ pc = "postIssue"
    /\ LET c == Call("postIssue", None, Some(latestPrTitle), None, userId)
       IN  \/ Rejects(c) /\ UNCHANGED locals
           \/ /\ \E n \in 1..MaxIssueNum :
                    Resolves([c EXCEPT !.key = Some(IssueKey(n))])
              /\ issueTitle' = Some(latestPrTitle)
              /\ GotoPc(IF Truthy(board) THEN "getSprints" ELSE TailEntry(key))
              /\ UNCHANGED <<latestPrTitle, foundInTitle, key, userId, isMeCreatedIssue>>
    /\ UNCHANGED <<inputs, transition>>

\* lines 160-164: create the issue, adopt its key and the title as issueTitle
PostIssue ==
    /\ pc = "postIssue"
    /\ LET c == Call("postIssue", None, Some(latestPrTitle), None, userId)
       IN  \/ Rejects(c) /\ UNCHANGED locals
           \/ /\ \E n \in 1..MaxIssueNum :
                    /\ Resolves([c EXCEPT !.key = Some(IssueKey(n))])
                    /\ key' = Some(IssueKey(n))
              /\ issueTitle' = Some(latestPrTitle)
              /\ GotoPc(IF Truthy(board) THEN "getSprints" ELSE TailEntry(key'))
              /\ UNCHANGED <<latestPrTitle, foundInTitle, userId, isMeCreatedIssue>>
    /\ UNCHANGED <<inputs, transition>>

\* line 166: a response without an active sprint makes the destructuring
\* throw; it is counted with the rejections
GetSprints ==
    /\ pc = "getSprints"
    /\ LET c == Call("getSprints", None, None, None, None)
       IN  Rejects(c) \/ (Resolves(c) /\ GotoPc("postMoveIssuesToSprint"))
    /\ UNCHANGED <<inputs, transition, locals>>

\* lines 167-174
PostMoveIssuesToSprint ==
    /\ pc = "postMoveIssuesToSprint"
    /\ LET c == Call("postMoveIssuesToSprint", key, None, None, None)
       IN  Rejects(c) \/ (Resolves(c) /\ GotoPc(TailEntry(key)))
    /\ UNCHANGED <<inputs, transition, locals>>

\* IsMeCreatedIssue with the test of line 180 inverted
IsMeCreatedIssueInverted ==
    /\ pc = "isMeCreatedIssue"
    /\ LET c == Call("isMeCreatedIssue", key, None, None, None)
       IN  \/ Rejects(c) /\ UNCHANGED <<transition, locals>>
           \/ /\ Resolves(c)
              /\ \E me \in BOOLEAN :
                    /\ isMeCreatedIssue' = Some(me)
                    /\ transition' = IF me THEN otherAssignedTransition ELSE transition
              /\ GotoPc(AfterChoice(transition'))
              /\ UNCHANGED <<latestPrTitle, foundInTitle, key, issueTitle, userId>>
    /\ UNCHANGED inputs

\* lines 178-182
IsMeCreatedIssue ==
    /\ pc = "isMeCreatedIssue"
    /\ LET c == Call("isMeCreatedIssue", key, None, None, None)
       IN  \/ Rejects(c) /\ UNCHANGED <<transition, locals>>
           \/ /\ Resolves(c)
              /\ \E me \in BOOLEAN :
                    /\ isMeCreatedIssue' = Some(me)
                    /\ transition' = IF ~me THEN otherAssignedTransition ELSE transition
              /\ GotoPc(AfterChoice(transition'))
              /\ UNCHANGED <<latestPrTitle, foundInTitle, key, issueTitle, userId>>
    /\ UNCHANGED inputs

\* lines 183-189
PostTransitIssue ==
    /\ pc = "postTransitIssue"
    /\ LET c == Call("postTransitIssue", key, None, None, transition)
       IN  Rejects(c) \/ (Resolves(c) /\ GotoPc(AfterTransit))
    /\ UNCHANGED <<inputs, transition, locals>>

\* line 192, the argument
GetIssueReporterId ==
    /\ pc = "getIssueReporterId"
    /\ LET c == Call("getIssueReporterId", key, None, None, None)
       IN  Rejects(c) \/ (Resolves(c) /\ GotoPc("putAssignIssue"))
    /\ UNCHANGED <<inputs, transition, locals>>

\* line 192, the call
PutAssignIssue ==
    /\ pc = "putAssignIssue"
    /\ LET c == Call("putAssignIssue", key, None, None, None)
       IN  Rejects(c) \/ (Resolves(c) /\ GotoPc("postComment"))
    /\ UNCHANGED <<inputs, transition, locals>>

\* PostComment with the rejection of the comment caught and ignored
PostCommentRejectionIgnored ==
    /\ pc = "postComment"
    /\ LET c == Call("postComment", key, None, None, HtmlUrl)
       IN  \/ calls' = Append(calls, [c EXCEPT !.result = "rejected"])
           \/ Resolves(c)
    /\ GotoPc("updatePR")
    /\ UNCHANGED <<inputs, transition, locals>>

\* lines 196-207
PostComment ==
    /\ pc = "postComment"
    /\ LET c == Call("postComment", key, None, None, HtmlUrl)
       IN  Rejects(c) \/ (Resolves(c) /\ GotoPc("updatePR"))
    /\ UNCHANGED <<inputs, transition, locals>>

\* lines 210-217
UpdatePR ==
    /\ pc = "updatePR"
    /\ LET c == Call("updatePR", None,
                     IF isCreateIssue \/ ~IsSome(foundInTitle)
                     THEN Some(TitleWithSuffix) ELSE None,
                     Some(TailBody), None)
       IN  Rejects(c) \/ (Resolves(c) /\ GotoPc(Returned))
    /\ UNCHANGED <<inputs, transition, locals>>

Next ==
    \/ FetchLatestPr
    \/ GetIssueSummary
    \/ PostWebhook
    \/ GetVersionIdByPrefix
    \/ PutFixVersion
    \/ WebhookUpdatePR
    \/ WebhookPostComment
    \/ AppendDesc
    \/ GetUser
    \/ GetUserIdByFuzzyName
    \/ PostIssue
    \/ GetSprints
    \/ PostMoveIssuesToSprint
    \/ IsMeCreatedIssue
    \/ PostTransitIssue
    \/ GetIssueReporterId
    \/ PutAssignIssue
    \/ PostComment
    \/ UpdatePR

Spec == Init /\ [][Next]_vars

\* ------------------------------------------------------------ vocabulary of the claims

\* the calls that change the tracker, the pull request or the webhook's receiver
MutatingOps == {"webhook", "putFixVersion", "updatePR", "postComment", "postIssue",
                "postMoveIssuesToSprint", "postTransitIssue", "putAssignIssue"}
Mutations == SelectSeq(calls, LAMBDA c : c.op \in MutatingOps)
CallsOf(op) == {i \in DOMAIN calls : calls[i].op = op}
Issued(op) == CallsOf(op) # {}

\* the four modes, by the inputs alone
WebhookMode == Truthy(webhook)
AppendOnlyMode == ~Truthy(webhook) /\ isOnlyAppendDesc
CreateIssueMode == ~Truthy(webhook) /\ ~isOnlyAppendDesc /\ isCreateIssue
FullSyncMode == ~Truthy(webhook) /\ ~isOnlyAppendDesc /\ ~isCreateIssue

\* the authoritative title, and what the title and the branch resolve to
AuthoritativeTitle == IF Truthy(remoteTitle) THEN remoteTitle ELSE pr.title
KeyInTitle == jiraTicketFormat(AuthoritativeTitle)
KeyInBranch == jiraTicketFormat(pr.ref)
NoKeyResolvable == ~IsSome(KeyInTitle) /\ ~IsSome(KeyInBranch)

\* the pull request was fetched: the key resolution has run
Fetched == calls # << >> /\ calls[1].result = "resolved"
Succeeded == pc \in {Exit0, Returned}

\* ------------------------------------------------------------ C1

\* C1: the modes are exclusive in the order webhook > append-description-only
\* > create-issue > full-sync.  With a webhook configured no issue is ever
\* created, transitioned or assigned.  Without a webhook and with
\* isOnlyAppendDesc, whatever isCreateIssue, isOnlyTransition and
\* isAssignToReporter are, every mutating call is a pull request update with
\* a body and no title, there is at most one, and a run that ends
\* successfully has made exactly one.
C1_ModeExclusive ==
    /\ WebhookMode =>
          \A i \in DOMAIN calls :
              calls[i].op \notin {"postIssue", "postTransitIssue", "putAssignIssue"}
    /\ AppendOnlyMode =>
          /\ \A i \in DOMAIN Mutations :
                /\ Mutations[i].op = "updatePR"
                /\ IsSome(Mutations[i].body)
                /\ Mutations[i].title = None
          /\ Len(Mutations) <= 1
          /\ Succeeded => Len(Mutations) = 1

\* an append-only run with the flags of the other modes set has ended with
\* its one update
C1_Witness ==
    /\ AppendOnlyMode /\ isCreateIssue /\ isOnlyTransition /\ isAssignToReporter
    /\ Truthy(project) /\ Truthy(type)
    /\ pc = Exit0
    /\ Len(Mutations) = 1

\* ------------------------------------------------------------ C2

\* C2: whenever the title and the branch resolve to no key and the mode is
\* not create-issue (webhook, append-description-only or full-sync), the run
\* ends successfully and issues no mutating call.  (Stated for a pull request
\* that has a body: a null body, which ends an append-only run with a
\* TypeError, is the case of C17.)
C2_NoKeyNoMutation ==
    (Fetched /\ NoKeyResolvable /\ ~CreateIssueMode /\ IsSome(pr.body)) =>
        /\ Mutations = << >>
        /\ Ended => Succeeded

\* what the code does keep of C2: outside append-description-only mode a run
\* without a key ends successfully with no mutating call
C2_OutsideAppendOnly ==
    (Fetched /\ NoKeyResolvable /\ (WebhookMode \/ FullSyncMode)) =>
        /\ Mutations = << >>
        /\ Ended => pc = Exit0

\* ------------------------------------------------------------ C3

IsPrefix(p, s) == Len(p) <= Len(s) /\ SubSeq(s, 1, Len(p)) = p
\* "[KEY](HOST/browse/KEY)" and "[KEY: SUMMARY](HOST/browse/KEY)"
PlainLink(k) ==
    <<"[">> \o k \o <<"]", "(">> \o host
        \o <<"/", "b", "r", "o", "w", "s", "e", "/">> \o k \o <<")">>
BracketSuffix(t, k) == t \o <<" ", "[">> \o k \o <<"]">>

TailOps == {"isMeCreatedIssue", "postTransitIssue", "getIssueReporterId",
            "putAssignIssue", "postComment", "updatePR"}
C3_Case == CreateIssueMode /\ Truthy(project) /\ Truthy(type) /\ NoKeyResolvable

\* the issue is created, with the title as summary, before any call of the
\* shared tail; every later call that names a key names the new one; with a
\* board the issue is moved to the sprint before the shared tail starts
C3_Creation ==
    /\ Cardinality(CallsOf("postIssue")) <= 1
    /\ \A i \in DOMAIN calls :
          calls[i].op \in TailOps =>
              \E j \in 1..(i - 1) :
                  /\ calls[j].op = "postIssue"
                  /\ calls[j].result = "resolved"
                  /\ calls[j].title = Some(AuthoritativeTitle)
                  /\ Truthy(board) =>
                        \E m \in (j + 1)..(i - 1) :
                            /\ calls[m].op = "postMoveIssuesToSprint"
                            /\ calls[m].key = calls[j].key
                            /\ calls[m].result = "resolved"
    /\ \A j \in CallsOf("postIssue") : \A i \in (j + 1)..Len(calls) :
          /\ IsSome(calls[j].key)
          /\ calls[i].op \in (MutatingOps \ {"updatePR"}) => calls[i].key = calls[j].key

\* the run has ended with the comment and then the update "{title} [{newKey}]"
\* whose body starts with the link to the new issue
C3_EndsWithCommentAndUpdate ==
    /\ Len(calls) >= 2
    /\ LET u == calls[Len(calls)]
           c == calls[Len(calls) - 1]
       IN  /\ c.op = "postComment" /\ c.result = "resolved"
           /\ u.op = "updatePR" /\ u.result = "resolved"
           /\ \E j \in CallsOf("postIssue") :
                 /\ c.key = calls[j].key
                 /\ u.title = Some(BracketSuffix(AuthoritativeTitle, Val(calls[j].key)))
                 /\ IsSome(u.body)
                 /\ IsPrefix(PlainLink(Val(calls[j].key)) \o <<"\n">>, Val(u.body))

\* C3 as claimed: in create-issue mode with project and type and no key
\* resolvable, the issue is created first and its key used from then on, and
\* the run ends with a comment posted and the pull request updated.
C3_Original ==
    C3_Case => /\ C3_Creation
               /\ Succeeded => C3_EndsWithCommentAndUpdate

\* C3, amended: ... and a run that ends successfully ends with the comment
\* and the update unless isOnlyTransition is set; with isOnlyTransition it
\* ends after the transition step with no comment and no update.
C3_CreateThenTail ==
    C3_Case =>
        /\ C3_Creation
        /\ (Succeeded /\ ~isOnlyTransition) => C3_EndsWithCommentAndUpdate
        /\ (Succeeded /\ isOnlyTransition) =>
              /\ Issued("postIssue")
              /\ ~Issued("postComment") /\ ~Issued("updatePR")

\* a create-issue run with a board has created the issue, moved it to the
\* sprint, commented and updated the pull request
C3_Witness ==
    /\ C3_Case /\ Truthy(board) /\ ~isOnlyTransition
    /\ pc = Returned
    /\ Issued("postMoveIssuesToSprint")
    /\ C3_EndsWithCommentAndUpdate

\* ------------------------------------------------------------ C4

TailMutatingOps == {"postTransitIssue", "putAssignIssue", "postComment", "updatePR"}
TailRank(op) ==
    CASE op = "postTransitIssue" -> 1
      [] op = "putAssignIssue" -> 2
      [] op = "postComment" -> 3
      [] op = "updatePR" -> 4
ResolvedBefore(op, i) ==
    \E j \in 1..(i - 1) : calls[j].op = op /\ calls[j].result = "resolved"

\* C4: in the shared tail (no webhook, not append-only) the calls are issued
\* one after another in the order transition -> assignment -> comment ->
\* update, each after the previous one resolved; a required call that rejects
\* is the last call of the run, which ends as failed.
C4_TailInOrder ==
    (~WebhookMode /\ ~AppendOnlyMode) =>
        /\ \A i, j \in DOMAIN calls :
              (i < j /\ calls[i].op \in TailMutatingOps /\ calls[j].op \in TailMutatingOps)
                  => TailRank(calls[i].op) < TailRank(calls[j].op)
        /\ \A i \in DOMAIN calls :
              /\ calls[i].result \in {"resolved", "rejected"}
              /\ calls[i].op = "putAssignIssue" => isAssignToReporter
              /\ calls[i].op = "postComment" =>
                    /\ isAssignToReporter => ResolvedBefore("putAssignIssue", i)
                    /\ Truthy(transition) => ResolvedBefore("postTransitIssue", i)
              /\ calls[i].op = "updatePR" =>
                    /\ calls[i - 1].op = "postComment"
                    /\ calls[i - 1].result = "resolved"
              /\ (calls[i].result = "rejected" /\ calls[i].op # "getUserIdByFuzzyName") =>
                    /\ i = Len(calls)
                    /\ pc = Failed
        /\ Returned = pc =>
              /\ calls[Len(calls)].op = "updatePR"
              /\ calls[Len(calls)].result = "resolved"

\* the comment of a run that transitions and assigns was rejected: the run
\* has failed and the pull request was not updated
C4_Witness ==
    /\ ~WebhookMode /\ ~AppendOnlyMode /\ isAssignToReporter
    /\ pc = Failed
    /\ Len(calls) >= 3
    /\ calls[Len(calls)].op = "postComment"
    /\ calls[Len(calls)].result = "rejected"
    /\ ResolvedBefore("postTransitIssue", Len(calls))
    /\ ResolvedBefore("putAssignIssue", Len(calls))
    /\ ~Issued("updatePR")

\* ------------------------------------------------------------ C5

\* C5: in webhook mode with a key resolved the webhook POST is the first
\* mutating call.  On a merged pull request the only calls after it are the
\* fix-version lookup and attachment, made only with isAddFixVersionOnMerge
\* (and made whenever such a run ends successfully); no update, no comment.
\* On an unmerged pull request no fix-version is attached, a run that ends
\* successfully has updated the pull request, and the run fails only when a
\* collaborator call rejects.
C5_WebhookRelay ==
    (WebhookMode /\ ~NoKeyResolvable) =>
        /\ Mutations # << >> => Mutations[1].op = "webhook"
        /\ pc = Failed => error = "collaborator"
        /\ pr.merged =>
              /\ \A i \in 2..Len(Mutations) : Mutations[i].op = "putFixVersion"
              /\ ~Issued("updatePR") /\ ~Issued("postComment")
              /\ (Issued("putFixVersion") \/ Issued("getVersionIdByPrefix"))
                    => isAddFixVersionOnMerge
              /\ (Succeeded /\ isAddFixVersionOnMerge) =>
                    /\ Len(Mutations) = 2
                    /\ Mutations[2].key = Mutations[1].key
                    /\ Mutations[2].result = "resolved"
        /\ ~pr.merged =>
              /\ ~Issued("putFixVersion") /\ ~Issued("getVersionIdByPrefix")
              /\ Succeeded =>
                    /\ Len(Mutations) >= 2
                    /\ Mutations[2].op = "updatePR"
                    /\ Mutations[2].result = "resolved"

\* a webhook run on a merged pull request has attached the fix-version and
\* exited
C5_Witness ==
    /\ WebhookMode /\ pr.merged /\ isAddFixVersionOnMerge
    /\ Truthy(email) /\ Truthy(token)
    /\ pc = Exit0
    /\ Len(Mutations) = 2
    /\ Mutations[1].op = "webhook"
    /\ Mutations[2].op = "putFixVersion"

\* ------------------------------------------------------------ C6

\* C6: when create-issue mode is selected and project or type is not
\* configured the run fails before any mutating call, whether or not a key
\* was resolved; and this configuration error and the rejection of a
\* collaborator call are the only ways a run fails.
C6_OnlyWaysToFail ==
    /\ (CreateIssueMode /\ (~Truthy(project) \/ ~Truthy(type))) =>
          /\ Mutations = << >>
          /\ Ended => pc = Failed
    /\ pc = Failed =>
          \/ error = "collaborator"
          \/ /\ error \in {"need project", "need type"}
             /\ CreateIssueMode /\ (~Truthy(project) \/ ~Truthy(type))

\* what the code keeps of C6: the configuration error, and the ways a run
\* fails when the pull request has a body
C6_WithBody ==
    /\ (CreateIssueMode /\ (~Truthy(project) \/ ~Truthy(type))) =>
          /\ Mutations = << >>
          /\ Ended => pc = Failed
    /\ (pc = Failed /\ IsSome(pr.body)) =>
          \/ error = "collaborator"
          \/ /\ error \in {"need project", "need type"}
             /\ CreateIssueMode /\ (~Truthy(project) \/ ~Truthy(type))

\* ------------------------------------------------------------ C7

\* C7: in create-issue mode with project and type, a key resolved from the
\* title or the branch means that no issue is created and no mutating call
\* is made at all, whatever transition and isAssignToReporter are; the run
\* exits with code 0 unless a read (the pull request, the summary) rejected.
C7_ExistingKeySkips ==
    (CreateIssueMode /\ Truthy(project) /\ Truthy(type) /\ ~NoKeyResolvable) =>
        /\ Mutations = << >>
        /\ \A i \in DOMAIN calls : calls[i].op \in {"getPullRequest", "getIssueSummary"}
        /\ Ended => (pc = Exit0 \/ error = "collaborator")
        /\ (Fetched /\ pc # "getIssueSummary") => Ended

\* such a run, with a transition and the assignment asked for, has exited
C7_Witness ==
    /\ CreateIssueMode /\ Truthy(project) /\ Truthy(type)
    /\ IsSome(KeyInBranch) /\ ~IsSome(KeyInTitle)
    /\ Truthy(configuredTransition) /\ isAssignToReporter /\ ~isOnlyTransition
    /\ pc = Exit0

\* ------------------------------------------------------------ C8

\* C8: in the shared tail with isOnlyTransition the run exits right after the
\* transition step: no reporter lookup, assignment, comment or update is ever
\* issued, whatever isAssignToReporter is and whether or not a transition was
\* applied.
C8_OnlyTransition ==
    (~WebhookMode /\ ~AppendOnlyMode /\ isOnlyTransition) =>
        /\ \A i \in DOMAIN calls :
              calls[i].op \notin {"getIssueReporterId", "putAssignIssue",
                                  "postComment", "updatePR"}
        /\ pc \notin {"getIssueReporterId", "putAssignIssue", "postComment",
                      "updatePR", Returned}
        /\ \A i \in DOMAIN calls :
              (calls[i].op = "postTransitIssue" /\ calls[i].result = "resolved") =>
                  (i = Len(calls) /\ pc = Exit0)

\* a run with isOnlyTransition and isAssignToReporter has transitioned and
\* exited
C8_Witness ==
    /\ ~WebhookMode /\ ~AppendOnlyMode /\ isOnlyTransition /\ isAssignToReporter
    /\ pc = Exit0
    /\ calls[Len(calls)].op = "postTransitIssue"

\* ------------------------------------------------------------ C9

\* the transition the policy prescribes
EffectiveTransition ==
    IF Truthy(otherAssignedTransition) /\ isMeCreatedIssue = Some(FALSE)
    THEN otherAssignedTransition
    ELSE configuredTransition
\* the shared tail is past its transition step
PastTransitionStep ==
    /\ ~WebhookMode /\ ~AppendOnlyMode
    /\ \/ pc \in {"getIssueReporterId", "putAssignIssue", "postComment", "updatePR",
                  Returned}
       \/ Issued("getIssueReporterId") \/ Issued("postComment")
       \/ /\ pc = Exit0 /\ isOnlyTransition /\ IsSome(key)
          /\ CreateIssueMode => Issued("postIssue")

\* C9: the transition applied is otherAssignedTransition iff that input is
\* set and the issue was not created by the action's user, and the transition
\* input otherwise; an empty effective transition means no transition call;
\* the creator is looked up only when otherAssignedTransition is set.
C9_TransitionPolicy ==
    /\ \A i \in CallsOf("postTransitIssue") :
          /\ calls[i].arg = EffectiveTransition
          /\ Truthy(calls[i].arg)
    /\ Cardinality(CallsOf("postTransitIssue")) <= 1
    /\ PastTransitionStep =>
          (Issued("postTransitIssue") <=> Truthy(EffectiveTransition))
    /\ Issued("isMeCreatedIssue") => Truthy(otherAssignedTransition)
    /\ (PastTransitionStep /\ Truthy(otherAssignedTransition)) => IsSome(isMeCreatedIssue)
    /\ IsSome(isMeCreatedIssue) => Issued("isMeCreatedIssue")

\* the issue was created by someone else, and the other transition was
\* applied in place of the configured one
C9_Witness ==
    /\ Truthy(configuredTransition) /\ Truthy(otherAssignedTransition)
    /\ isMeCreatedIssue = Some(FALSE)
    /\ \E i \in CallsOf("postTransitIssue") :
          calls[i].arg = otherAssignedTransition /\ calls[i].result = "resolved"

\* ------------------------------------------------------------ C10

\* C10: every pull request update of webhook mode or of the shared tail
\* carries a title iff the key was not matched in the authoritative title,
\* and that title is "{authoritative title} [{key}]".
C10_TitleIffKeyNotInTitle ==
    ~AppendOnlyMode =>
        \A i \in CallsOf("updatePR") :
            /\ IsSome(key)
            /\ IF IsSome(KeyInTitle)
               THEN calls[i].title = None
               ELSE calls[i].title = Some(BracketSuffix(AuthoritativeTitle, Val(key)))

\* a webhook update left the title alone, the key being in it
C10_Witness ==
    /\ WebhookMode /\ IsSome(KeyInTitle)
    /\ \E i \in CallsOf("updatePR") :
          calls[i].title = None /\ calls[i].result = "resolved"

\* ------------------------------------------------------------ C11

TrackerOps == {"getIssueSummary", "getVersionIdByPrefix", "putFixVersion",
               "postComment", "getUserIdByFuzzyName", "postIssue", "getSprints",
               "postMoveIssuesToSprint", "isMeCreatedIssue", "postTransitIssue",
               "getIssueReporterId", "putAssignIssue"}
HasCredentials == Truthy(email) /\ Truthy(token)

\* C11 as claimed: without credentials (email and token) no tracker call,
\* read or write, is issued in any mode.
C11_Original ==
    ~HasCredentials => \A i \in DOMAIN calls : calls[i].op \notin TrackerOps

\* C11, amended: without credentials the run issues no summary read, and in
\* webhook mode no comment; with credentials and a key resolved the summary
\* read is the call that follows the fetch of the pull request.
C11_CredentialsGate ==
    /\ ~HasCredentials =>
          /\ ~Issued("getIssueSummary")
          /\ pc # "getIssueSummary"
          /\ WebhookMode => ~Issued("postComment")
    /\ (HasCredentials /\ Fetched /\ ~NoKeyResolvable) =>
          \/ pc = "getIssueSummary"
          \/ Len(calls) >= 2 /\ calls[2].op = "getIssueSummary"

\* a webhook run with the email alone has updated the pull request and
\* exited without a summary read and without a comment
C11_Witness ==
    /\ WebhookMode /\ Truthy(email) /\ ~Truthy(token) /\ ~pr.merged
    /\ pc = Exit0
    /\ Issued("updatePR")
    /\ ~Issued("postComment") /\ ~Issued("getIssueSummary")

\* ------------------------------------------------------------ C12

BestEffortOps == {"getIssueSummary", "getUserIdByFuzzyName"}

\* C12: a failure of a best-effort call (the summary read, the fuzzy user
\* lookup) is swallowed: the run does not fail because of it, and the call
\* that follows is issued with no summary and no assignee.
C12_BestEffortSwallowed ==
    \A i \in DOMAIN calls :
        (calls[i].op \in BestEffortOps /\ calls[i].result = "rejected") =>
            /\ ~(i = Len(calls) /\ pc = Failed)
            /\ calls[i].op = "getIssueSummary" => ~IsSome(issueTitle)
            /\ (calls[i].op = "getUserIdByFuzzyName" /\ i < Len(calls)) =>
                  /\ calls[i + 1].op = "postIssue"
                  /\ calls[i + 1].arg = None

\* what the code keeps of C12: the rejection of the fuzzy user lookup is
\* swallowed and the issue is created with no assignee
C12_FuzzyLookupSwallowed ==
    \A i \in CallsOf("getUserIdByFuzzyName") :
        calls[i].result = "rejected" =>
            /\ ~(i = Len(calls) /\ pc = Failed)
            /\ i = Len(calls) => (pc = "postIssue" /\ userId = None)
            /\ i < Len(calls) =>
                  /\ calls[i + 1].op = "postIssue"
                  /\ calls[i + 1].arg = None

\* ------------------------------------------------------------ C13

\* "[KEY: SUMMARY](HOST/browse/KEY)"
SummaryLink(k, summary) ==
    <<"[">> \o k \o <<":", " ">> \o summary \o <<"]", "(">> \o host
        \o <<"/", "b", "r", "o", "w", "s", "e", "/">> \o k \o <<")">>
\* the link the claim prescribes for key k, given the summary at hand
ExpectedLink(k) ==
    IF TruthyOpt(issueTitle) THEN SummaryLink(k, Val(issueTitle)) ELSE PlainLink(k)
Contains(s, p) == Search(s, p) # -1

\* C13: in every mode the body written holds the link "[KEY: SUMMARY](...)"
\* exactly when a summary is at hand (read from the tracker, or the title of
\* the issue created in this run) and "[KEY](...)" otherwise, whether the
\* key came from the title or the branch; the key and the summary are never
\* the name of a missing value.
C13_LinkText ==
    \A i \in CallsOf("updatePR") :
        /\ IsSome(key)
        /\ Contains(Val(calls[i].body), ExpectedLink(Val(key)))
        /\ ~Contains(Val(calls[i].body), StrUndefined)

\* what the code keeps of C13: the link written in webhook mode
C13_WebhookLink ==
    WebhookMode =>
        \A i \in CallsOf("updatePR") :
            /\ IsSome(key)
            /\ IsPrefix(ExpectedLink(Val(key)) \o <<"\n">>, Val(calls[i].body))
            /\ ~Contains(Val(calls[i].body), StrUndefined)

\* C13 restricted to the runs that resolved a key
C13_LinkTextWithKey ==
    IsSome(key) =>
        \A i \in CallsOf("updatePR") :
            /\ Contains(Val(calls[i].body), ExpectedLink(Val(key)))
            /\ ~Contains(Val(calls[i].body), StrUndefined)

\* ------------------------------------------------------------ titles, branches and descriptions

TitleExample == <<"F", "i", "x", " ", "l", "o", "g", "i", "n", " ", "b", "u",
                  "g", " ", "A", "B", "-", "4", "2">>
TitleNoKey == <<"F", "i", "x", " ", "l", "o", "g", "i", "n", " ", "b", "u", "g">>
TitleBracket == <<"F", "i", "x", " ", "[", "A", "B", "-", "4", "2", "]">>
BranchLower == <<"f", "e", "a", "t", "u", "r", "e", "/", "a", "b", "-", "9",
                 "9", "-", "f", "i", "x">>

\* (title of the re-fetched pull request, title of the event payload, branch)
HeadsText == {<<TitleExample, TitleExample, BranchPlain>>,
              <<TitleNoKey, TitleNoKey, BranchLower>>,
              <<TitleNoKey, TitleNoKey, BranchPlain>>,
              <<TitleBracket, TitleBracket, BranchLower>>}

\* pull_request.body: text with the anchors at its start and further on, text
\* that starts with the other anchor, the empty text
BodiesText == {BodyText, <<"#", "a", "#">>, << >>}
\* appendDescAfterRegex: not set, or a literal
PatternsText == {Unset, <<"a">>, <<"#">>, <<"z">>}

\* the runs of main() over these texts, with every optional step configured
InitText ==
    /\ webhook \in OptionalInput(WebhookUrl)
    /\ email = Email
    /\ token = Token
    /\ project = Project
    /\ type = IssueType
    /\ board = Board
    /\ configuredTransition = TransitionName
    /\ transition = configuredTransition
    /\ otherAssignedTransition = OtherTransitionName
    /\ isOnlyTransition = FALSE
    /\ isCreateIssue \in BOOLEAN
    /\ isAssignToReporter = TRUE
    /\ isOnlyAppendDesc \in BOOLEAN
    /\ isAddFixVersionOnMerge = TRUE
    /\ \E hd \in HeadsText, b \in BodiesText, mg \in BOOLEAN :
          /\ remoteTitle = hd[1]
          /\ pr = [title |-> hd[2], body |-> Some(b), ref |-> hd[3], merged |-> mg]
    /\ appendDescAfterRegex \in PatternsText
    /\ latestPrTitle = << >>
    /\ foundInTitle = None
    /\ key = None
    /\ issueTitle = None
    /\ userId = None
    /\ isMeCreatedIssue = None
    /\ pc = "start"
    /\ error = "none"
    /\ calls = << >>

SpecText == InitText /\ [][Next]_vars

\* ------------------------------------------------------------ C14

\* a PROJECT-NUMBER token that starts right after the non-letter s[i]
TokenLettersEnd(s, i) == RunEnd(s, i + 1, Letter)
TokenEnd(s, i) == RunEnd(s, TokenLettersEnd(s, i) + 2, Digit)
TokenAfter(s, i) ==
    /\ s[i] \notin Letter
    /\ TokenLettersEnd(s, i) >= i + 1
    /\ TokenLettersEnd(s, i) + 1 <= Len(s)
    /\ s[TokenLettersEnd(s, i) + 1] = "-"
    /\ TokenEnd(s, i) >= TokenLettersEnd(s, i) + 2
\* the leftmost such token of s, whole
WholeToken(s) ==
    LET starts == {i \in 1..Len(s) : TokenAfter(s, i)}
    IN  IF starts = {} THEN None
        ELSE Some(SubSeq(s, Min(starts) + 1, TokenEnd(s, Min(starts))))
\* the state right after the pull request was re-fetched and the key resolved
KeyJustResolved == Len(calls) = 1 /\ Fetched

\* C14: the key resolved is the whole leftmost PROJECT-NUMBER token of the
\* title that follows a non-letter, or, when the title has none, that of the
\* branch; "Fix login bug AB-42" resolves to "AB-42".
C14_WholeToken ==
    KeyJustResolved =>
        key = IF IsSome(WholeToken(AuthoritativeTitle))
              THEN WholeToken(AuthoritativeTitle)
              ELSE WholeToken(pr.ref)

\* what the code keeps of C14: a title that matches is preferred to the branch
C14_TitleBeforeBranch ==
    KeyJustResolved =>
        /\ foundInTitle = KeyInTitle
        /\ key = IF IsSome(KeyInTitle) THEN KeyInTitle ELSE KeyInBranch

\* ------------------------------------------------------------ C15

LowercaseScenario == AuthoritativeTitle = TitleNoKey /\ pr.ref = BranchLower

AppendLink == LinkText(key, SummaryIfFoundInTitle)
AnchorMatches(b) ==
    Truthy(appendDescAfterRegex) /\ Search(b, appendDescAfterRegex) # -1
\* the end j of the first match [i, j) of the anchor in b
AnchorEnd(b) == Search(b, appendDescAfterRegex) + Len(appendDescAfterRegex)

\* C16: in append-description-only mode, when the anchor's first match is
\* [i, j) of the body (i = 0 included) the body written is body[0:j], a
\* space, the link, body[j:], with no newline added; when the anchor is not
\* set or does not match it is the link, a newline, the body.
C16_InsertAfterAnchor ==
    (AppendOnlyMode /\ IsSome(pr.body)) =>
        \A n \in CallsOf("updatePR") :
            LET b == Val(pr.body)
            IN  Val(calls[n].body) =
                    IF AnchorMatches(b)
                    THEN Slice(b, 0, AnchorEnd(b)) \o <<" ">> \o AppendLink
                             \o SliceFrom(b, AnchorEnd(b))
                    ELSE AppendLink \o <<"\n">> \o b

\* what the code keeps of C16: the same, for an anchor that does not match
\* at the very start of the body
C16_InsertAfterLaterAnchor ==
    (AppendOnlyMode /\ IsSome(pr.body)) =>
        \A n \in CallsOf("updatePR") :
            LET b == Val(pr.body)
            IN  ~(AnchorMatches(b) /\ Search(b, appendDescAfterRegex) = 0) =>
                    Val(calls[n].body) =
                        IF AnchorMatches(b)
                        THEN Slice(b, 0, AnchorEnd(b)) \o <<" ">> \o AppendLink
                                 \o SliceFrom(b, AnchorEnd(b))
                        ELSE AppendLink \o <<"\n">> \o b

\* ------------------------------------------------------------ C17

\* the link as the mode of this run writes it
WrittenLink ==
    IF WebhookMode THEN LinkText(key, SummaryIfTruthy)
    ELSE LinkText(key, SummaryIfFoundInTitle)

\* C17: when the event's pull request has no body, the run does not fail
\* because of it and every body written is the link and a newline, with no
\* text standing for the missing body.
C17_NilBodyAsEmpty ==
    ~IsSome(pr.body) =>
        /\ error # "TypeError"
        /\ \A n \in CallsOf("updatePR") :
              Val(calls[n].body) = WrittenLink \o <<"\n">>

\* C17 without its first half: the bodies written for a missing body
C17_NilBodyWritten ==
    ~IsSome(pr.body) =>
        \A n \in CallsOf("updatePR") :
            Val(calls[n].body) = WrittenLink \o <<"\n">>

\* what the code writes instead: the text "null" after the link
C17_NilBodyRendered ==
    ~IsSome(pr.body) =>
        \A n \in CallsOf("updatePR") :
            Val(calls[n].body) = WrittenLink \o <<"\n">> \o StrNull

\* ------------------------------------------------------------ repeated events

\* the number of times the workflow runs main() for the pull request
MaxRuns == 2

TitleKeyFirst == <<"A", "B", "-", "4">>

\* (title the host holds, title of the first event's payload, branch)
HeadsRuns == {<<TitlePlain, TitlePlain, BranchPlain>>,
              <<TitlePlain, TitlePlain, BranchWithKey>>,
              <<TitleWithKey, TitleWithKey, BranchPlain>>,
              <<TitleKeyFirst, TitleKeyFirst, BranchWithKey>>}

\* the record that marks, in `calls`, the event that started a further run
Event == [Call("pull_request", None, None, None, None) EXCEPT !.result = "resolved"]
Events == {i \in DOMAIN calls : calls[i].op = "pull_request"}
\* the calls of the run that is under way or has just ended
RunStart == IF Events = {} THEN 0 ELSE CHOOSE i \in Events : \A j \in Events : j <= i
RunCalls == {i \in DOMAIN calls : i > RunStart}
\* the update the host applied in this run (a run issues at most one)
AppliedUpdates ==
    {i \in RunCalls : calls[i].op = "updatePR" /\ calls[i].result = "resolved"}
HostTitle ==
    IF \E i \in AppliedUpdates : IsSome(calls[i].title)
    THEN Val(calls[CHOOSE i \in AppliedUpdates : IsSome(calls[i].title)].title)
    ELSE remoteTitle
HostBody ==
    IF AppliedUpdates # {}
    THEN calls[CHOOSE i \in AppliedUpdates : TRUE].body
    ELSE pr.body

\* a workflow that creates issues is configured with the plain tail, one that
\* does not with every optional step of it
InitRuns ==
    /\ webhook \in OptionalInput(WebhookUrl)
    /\ isCreateIssue \in BOOLEAN
    /\ \E credentials \in (IF isCreateIssue THEN {TRUE} ELSE BOOLEAN) :
          /\ email = IF credentials THEN Email ELSE Unset
          /\ token = IF credentials THEN Token ELSE Unset
    /\ project = Project
    /\ type = IssueType
    /\ board = Board
    /\ configuredTransition = TransitionName
    /\ transition = configuredTransition
    /\ otherAssignedTransition = IF isCreateIssue THEN Unset ELSE OtherTransitionName
    /\ isOnlyTransition \in BOOLEAN
    /\ isAssignToReporter = ~isCreateIssue
    /\ isOnlyAppendDesc \in BOOLEAN
    /\ isAddFixVersionOnMerge = TRUE
    /\ \E hd \in HeadsRuns, mg \in BOOLEAN :
          /\ remoteTitle = hd[1]
          /\ pr = [title |-> hd[2], body |-> Some(BodyText), ref |-> hd[3],
                   merged |-> mg]
    /\ appendDescAfterRegex = <<"#">>
    /\ latestPrTitle = << >>
    /\ foundInTitle = None
    /\ key = None
    /\ issueTitle = None
    /\ userId = None
    /\ isMeCreatedIssue = None
    /\ pc = "start"
    /\ error = "none"
    /\ calls = << >>

\* the workflow is triggered again for the same pull request (opened,
\* synchronize, closed): main() starts afresh, the event's payload and the
\* host carry the title and the body as the last run's update left them
NextEvent ==
    /\ Ended
    /\ Cardinality(Events) < MaxRuns - 1
    /\ remoteTitle' = HostTitle
    /\ pr' = [pr EXCEPT !.title = IF Truthy(HostTitle) THEN HostTitle ELSE pr.title,
                        !.body = HostBody]
    /\ transition' = configuredTransition
    /\ latestPrTitle' = << >>
    /\ foundInTitle' = None
    /\ key' = None
    /\ issueTitle' = None
    /\ userId' = None
    /\ isMeCreatedIssue' = None
    /\ pc' = "start"
    /\ error' = "none"
    /\ calls' = Append(calls, Event)
    /\ UNCHANGED <<webhook, email, token, project, type, board, isOnlyTransition,
                   isCreateIssue, otherAssignedTransition, isAssignToReporter,
                   isOnlyAppendDesc, appendDescAfterRegex, isAddFixVersionOnMerge,
                   configuredTransition>>

NextRuns == Next \/ NextEvent

SpecRuns == InitRuns /\ [][NextRuns]_vars

\* ------------------------------------------------------------ C18

Max(S) == CHOOSE x \in S : \A y \in S : y <= x
\* the calls of the run that ended with the event at e, and of the run that
\* this event started
PrevEvent(e) == Max({0} \cup {j \in Events : j < e})
FollowingEvent(e) == Min({Len(calls) + 1} \cup {j \in Events : j > e})
Before(e) == {i \in DOMAIN calls : PrevEvent(e) < i /\ i < e}
After(e) == {i \in DOMAIN calls : e < i /\ i < FollowingEvent(e)}
Applied(S, op) == {i \in S : calls[i].op = op /\ calls[i].result = "resolved"}
BodyOf(S) == Val(calls[CHOOSE i \in Applied(S, "updatePR") : TRUE].body)
\* both runs around the event at e went through to the update
BothUpdated(e) ==
    Applied(Before(e), "updatePR") # {} /\ Applied(After(e), "updatePR") # {}
\* second is first with a copy of first's leading link block put in front
SameLinkTwice(first, second) ==
    LET d == Len(second) - Len(first)
    IN  /\ d >= 2
        /\ d <= Len(first)
        /\ second[d] = "\n"
        /\ SubSeq(second, d + 1, Len(second)) = first
        /\ SubSeq(first, 1, d) = SubSeq(second, 1, d)

\* C18: two full-sync runs in succession, the second seeing the body the
\* first wrote, leave the body link, newline, link, newline, original body,
\* and each run posts its own comment.  Stated for runs without tracker
\* credentials, which read no summary, so that the two runs cannot be told
\* different summaries.
C18_TwoRuns ==
    (FullSyncMode /\ ~HasCredentials) =>
        \A e \in Events :
            BothUpdated(e) =>
                /\ SameLinkTwice(BodyOf(Before(e)), BodyOf(After(e)))
                /\ Applied(Before(e), "postComment") # {}
                /\ Applied(After(e), "postComment") # {}

\* what the code keeps of C18: the second run puts its own link block in
\* front of the body the first run wrote, and each run posts its comment
C18_SecondBlockStacked ==
    (FullSyncMode /\ Events # {} /\ BothUpdated(RunStart)) =>
        /\ BodyOf(After(RunStart)) =
              WrittenLink \o <<"\n">> \o BodyOf(Before(RunStart))
        /\ Applied(Before(RunStart), "postComment") # {}
        /\ Applied(After(RunStart), "postComment") # {}

\* and C18 as stated, when the key stood in the title before the first run
C18_KeyInTitleTwice ==
    (FullSyncMode /\ ~HasCredentials) =>
        \A e \in Events :
            (/\ BothUpdated(e)
             /\ \A i \in Applied(Before(e), "updatePR") : ~IsSome(calls[i].title)) =>
                SameLinkTwice(BodyOf(Before(e)), BodyOf(After(e)))

\* ------------------------------------------------------------ C19

Tickets == Applied(DOMAIN calls, "postIssue")

\* C19: over the runs of a workflow in create-issue mode, each of which may
\* fail at any call, at most one ticket is created for the pull request.
C19_AtMostOneTicket == CreateIssueMode => Cardinality(Tickets) <= 1

\* C19 for the runs none of which fails
C19_AtMostOneTicketNoFailure ==
    (CreateIssueMode /\ \A i \in DOMAIN calls : calls[i].result = "resolved") =>
        Cardinality(Tickets) <= 1

\* what the code keeps of C19: no ticket is created in a run that follows an
\* applied update of the title
C19_NoTicketAfterUpdate ==
    CreateIssueMode =>
        \A e \in Events :
            Applied(Before(e), "updatePR") # {} => Applied(After(e), "postIssue") = {}

\* ------------------------------------------------------------ C20

\* the updates of earlier runs that changed the title, and the key of the
\* run that made the update at u (the key its comment, the call before, names)
EarlierSuffixes ==
    {u \in Applied(DOMAIN calls, "updatePR") : u < RunStart /\ IsSome(calls[u].title)}
KeyOfUpdate(u) == calls[u - 1].key
IsSuffix(p, s) == Len(p) <= Len(s) /\ SubSeq(s, Len(s) - Len(p) + 1, Len(s)) = p
\* the run under way has re-fetched the pull request and resolved its key
RunFetched == Len(calls) > RunStart /\ calls[RunStart + 1].result = "resolved"

\* C20: once a full-sync or create-issue run has succeeded and appended
\* " [KEY]" to a title without a key, every later run resolves this KEY from
\* the re-fetched title, no later run changes the title again, and no later
\* run creates a ticket.
C20_SameKeyLater ==
    (~WebhookMode /\ ~AppendOnlyMode) =>
        \A u \in EarlierSuffixes :
            /\ calls[u - 1].op = "postComment"
            /\ IsSome(KeyOfUpdate(u))
            /\ IsSuffix(<<" ", "[">> \o Val(KeyOfUpdate(u)) \o <<"]">>, Val(calls[u].title))
            /\ RunFetched => foundInTitle = KeyOfUpdate(u) /\ key = KeyOfUpdate(u)
            /\ \A i \in DOMAIN calls :
                  i > u => /\ calls[i].op # "postIssue"
                           /\ ~(calls[i].op = "updatePR" /\ IsSome(calls[i].title))
C20_Witness ==
    /\ CreateIssueMode
    /\ EarlierSuffixes # {}
    /\ Cardinality(Tickets) = 1
    /\ RunFetched
    /\ pc = Exit0
\* the same in full-sync mode: the later run goes through to its own update
C20_FullSyncLater ==
    /\ FullSyncMode
    /\ EarlierSuffixes # {}
    /\ pc = Returned

====
